---- MODULE Spec2Model ----
(***************************************************************************)
(* Model of src/smart_excel_csv_analysis_tool.py: the natural-language to  *)
(* SQL pipeline (fence extraction, safety gate, limit enforcer, execution, *)
(* summary) and the script's start-up and interactive loop.                *)
(*                                                                         *)
(* A text (Python str) is a sequence of characters, each character a       *)
(* one-character string; the backtick, which TLA+ strings cannot hold, is  *)
(* the character BT.  A dataframe is represented by its number of rows.    *)
(***************************************************************************)
EXTENDS Integers, Sequences, FiniteSets, TLC

VARIABLES
    pc,          \* the statement of the script that runs next
    turn,        \* number of lines read by input() so far
    user_input,  \* the script's variable user_input
    sql_query,   \* the script's variable sql_query
    result_df,   \* the script's variable result_df (its number of rows)
    summary,     \* the script's variable summary
    calls,       \* calls made since the last input(): <<function, argument>>
    llm_calls,   \* client.chat.completions.create calls since the last input()
    stdout,      \* notices printed since the last input()
    open_cons,   \* duckdb connections opened and not closed
    next_con,    \* identity of the next connection duckdb.connect returns
    exc,         \* function whose exception ended the process, or "none"
    fn_pc,       \* function-level harness: which function has been applied
    fn_text,     \* function-level harness: the argument
    fn_res       \* function-level harness: the value returned

vars == <<pc, turn, user_input, sql_query, result_df, summary, calls, llm_calls,
          stdout, open_cons, next_con, exc, fn_pc, fn_text, fn_res>>

mainVars == <<pc, turn, user_input, sql_query, result_df, summary, calls,
              llm_calls, stdout, open_cons, next_con, exc>>

fnVars == <<fn_pc, fn_text, fn_res>>

\* ------------------------------------------------------------------ bounds
MaxFrags == 3
MaxTurns == 2
MaxRows == 11

\* -------------------------------------------------------------- characters
BT == "<backtick>"

LowerLetters == <<"a", "b", "c", "d", "e", "f", "g", "h", "i", "j", "k", "l", "m",
                  "n", "o", "p", "q", "r", "s", "t", "u", "v", "w", "x", "y", "z">>

UpperLetters == <<"A", "B", "C", "D", "E", "F", "G", "H", "I", "J", "K", "L", "M",
                  "N", "O", "P", "Q", "R", "S", "T", "U", "V", "W", "X", "Y", "Z">>

Digits == <<"0", "1", "2", "3", "4", "5", "6", "7", "8", "9">>

Range(s) == {s[i] : i \in DOMAIN s}

\* str.isspace of one character (ASCII)
IsSpace(c) == c \in {" ", "\n", "\t", "\r"}

\* the regular expression class \w (ASCII)
IsWord(c) == c \in Range(LowerLetters) \cup Range(UpperLetters) \cup Range(Digits) \cup {"_"}

UpperChar(c) ==
    IF c \in Range(LowerLetters)
    THEN UpperLetters[CHOOSE i \in DOMAIN LowerLetters : LowerLetters[i] = c]
    ELSE c

LowerChar(c) ==
    IF c \in Range(UpperLetters)
    THEN LowerLetters[CHOOSE i \in DOMAIN UpperLetters : UpperLetters[i] = c]
    ELSE c

\* str.upper
upper(s) == [i \in DOMAIN s |-> UpperChar(s[i])]

\* str.lower
lower(s) == [i \in DOMAIN s |-> LowerChar(s[i])]

\* the operator `needle in hay` on strings
Contains(hay, needle) ==
    \E i \in 1..(Len(hay) - Len(needle) + 1) :
        SubSeq(hay, i, i + Len(needle) - 1) = needle

\* str.rstrip(chars)
RECURSIVE rstrip(_, _)
rstrip(s, chars) ==
    IF s # <<>> /\ s[Len(s)] \in chars
    THEN rstrip(SubSeq(s, 1, Len(s) - 1), chars)
    ELSE s

\* str.lstrip()
RECURSIVE lstrip(_)
lstrip(s) ==
    IF s # <<>> /\ IsSpace(s[1]) THEN lstrip(Tail(s)) ELSE s

\* str.strip()
strip(s) == lstrip(rstrip(s, {" ", "\n", "\t", "\r"}))

\* str(n) of a natural number, as the f-string formats {limit}
RECURSIVE IntToStr(_)
IntToStr(n) ==
    IF n < 10 THEN <<Digits[n + 1]>>
    ELSE IntToStr(n \div 10) \o <<Digits[(n % 10) + 1]>>

\* ------------------------------------------------------- the pure functions
DefaultLimit == 10

forbidden == { <<"I", "N", "S", "E", "R", "T">>,
               <<"U", "P", "D", "A", "T", "E">>,
               <<"D", "E", "L", "E", "T", "E">>,
               <<"D", "R", "O", "P">>,
               <<"A", "L", "T", "E", "R">>,
               <<"C", "R", "E", "A", "T", "E">> }

LIMIT == <<"L", "I", "M", "I", "T">>

is_safe_query_nocase(query) ==
    ~ \E keyword \in forbidden : Contains(query, keyword)

is_safe_query(query) ==
    LET upper_query == upper(query)
    IN  ~ \E keyword \in forbidden : Contains(upper_query, keyword)

enforce_limit_one(query, limit) ==
    IF ~ Contains(upper(query), LIMIT)
    THEN (IF query # <<>> /\ query[Len(query)] = ";"
          THEN SubSeq(query, 1, Len(query) - 1) ELSE query)
         \o <<" ">> \o LIMIT \o <<" ">> \o IntToStr(limit) \o <<";">>
    ELSE query

enforce_limit_none(query, limit) == query

enforce_limit(query, limit) ==
    IF ~ Contains(upper(query), LIMIT)
    THEN rstrip(query, {";"}) \o <<" ">> \o LIMIT \o <<" ">> \o IntToStr(limit) \o <<";">>
    ELSE query

\* --- re.search(r"```(?:\w+)?\s*(.*?)```", text, IGNORECASE | DOTALL)
FenceAt(text, i) ==
    /\ i >= 1
    /\ i + 2 <= Len(text)
    /\ text[i] = BT /\ text[i + 1] = BT /\ text[i + 2] = BT

\* first position >= p that holds no \w character (greedy \w+)
RECURSIVE SkipWord(_, _)
SkipWord(text, p) ==
    IF p <= Len(text) /\ IsWord(text[p]) THEN SkipWord(text, p + 1) ELSE p

\* first position >= p that holds no \s character (greedy \s*)
RECURSIVE SkipSpace(_, _)
SkipSpace(text, p) ==
    IF p <= Len(text) /\ IsSpace(text[p]) THEN SkipSpace(text, p + 1) ELSE p

\* where group 1 starts when the match starts at i: after the marker, the
\* greedy optional \w+ and the greedy \s*.  Neither gives anything back: the
\* characters they took are no backticks, so a closing marker that exists
\* after a shorter tag or gap also exists after the longest.
GroupStart(text, i) == SkipSpace(text, SkipWord(text, i + 3))

\* the closing markers the lazy (.*?) can stop at
Closings(text, i) == {j \in GroupStart(text, i)..Len(text) : FenceAt(text, j)}

MatchAt(text, i) == FenceAt(text, i) /\ Closings(text, i) # {}

Min(S) == CHOOSE x \in S : \A y \in S : x <= y

\* match.group(1) of the leftmost match
Group1(text) ==
    LET i == Min({k \in 1..Len(text) : MatchAt(text, k)})
        j == Min(Closings(text, i))
    IN  SubSeq(text, GroupStart(text, i), j - 1)

strip_sql_markdown(text) ==
    IF \E k \in 1..Len(text) : MatchAt(text, k)
    THEN strip(Group1(text))
    ELSE strip(text)

\* ------------------------------------------------ function-level harness
\* Pieces the argument texts are built from: fence markers, a tagged fence
\* opener, a statement, terminators, white space, keywords in mixed case,
\* a keyword split over two pieces, and "limit" in lower case.
Frags == { <<BT, BT, BT>>,
           <<BT, BT, BT, "s", "q", "l", "\n">>,
           <<"S", "E", "L", "E", "C", "T", " ", "1">>,
           <<";">>,
           <<" ">>,
           <<"\n">>,
           <<"d", "R", "o", "P">>,
           <<"i", "n", "S">>,
           <<"e", "r", "T">>,
           <<"l", "i", "m", "i", "t">>,
           <<"a">> }

RECURSIVE TextsOf(_, _)
TextsOf(frags, n) ==
    IF n = 0 THEN {<<>>}
    ELSE LET shorter == TextsOf(frags, n - 1)
         IN  shorter \cup {t \o f : t \in shorter, f \in frags}

Texts == TextsOf(Frags, MaxFrags)

CallIsSafeQuery ==
    /\ fn_pc = "call"
    /\ fn_pc' = "is_safe_query"
    /\ fn_res' = is_safe_query(fn_text)
    /\ UNCHANGED <<fn_text, mainVars>>

CallEnforceLimit ==
    /\ fn_pc = "call"
    /\ fn_pc' = "enforce_limit"
    /\ fn_res' = enforce_limit(fn_text, DefaultLimit)
    /\ UNCHANGED <<fn_text, mainVars>>

CallStripSqlMarkdown ==
    /\ fn_pc = "call"
    /\ fn_pc' = "strip_sql_markdown"
    /\ fn_res' = strip_sql_markdown(fn_text)
    /\ UNCHANGED <<fn_text, mainVars>>

\* ------------------------------------------------------------- the store
\* number of decimal digits the text ends with
RECURSIVE TrailingDigits(_)
TrailingDigits(s) ==
    IF s # <<>> /\ s[Len(s)] \in Range(Digits)
    THEN 1 + TrailingDigits(SubSeq(s, 1, Len(s) - 1))
    ELSE 0

RECURSIVE StrToInt(_)
StrToInt(s) ==
    IF s = <<>> THEN 0
    ELSE 10 * StrToInt(SubSeq(s, 1, Len(s) - 1))
         + (CHOOSE d \in 0..9 : Digits[d + 1] = s[Len(s)])

\* start of the last line of the text
RECURSIVE LastLineStart(_)
LastLineStart(s) ==
    IF s = <<>> \/ s[Len(s)] = "\n" THEN Len(s) + 1
    ELSE LastLineStart(SubSeq(s, 1, Len(s) - 1))

NoLimit == -1

\* The bound the store applies to the rows con.execute(query) returns: the
\* number of a LIMIT clause that ends the last statement, unless a line
\* comment has swallowed the clause; NoLimit when there is none.
StoreLimit(query) ==
    LET body == rstrip(query, {";", " ", "\n", "\t", "\r"})
        d    == TrailingDigits(body)
        kw   == Len(body) - d - 6     \* where " LIMIT " would start
    IN  IF /\ d > 0
           /\ kw >= 1
           /\ IsSpace(body[kw])
           /\ upper(SubSeq(body, kw + 1, kw + 5)) = LIMIT
           /\ IsSpace(body[kw + 6])
           /\ ~ Contains(SubSeq(body, LastLineStart(body), kw), <<"-", "-">>)
        THEN StrToInt(SubSeq(body, Len(body) - d + 1, Len(body)))
        ELSE NoLimit

\* row counts con.execute(query).fetchdf() can return
StoreRows(query) ==
    {n \in 0..MaxRows : StoreLimit(query) = NoLimit \/ n <= StoreLimit(query)}

\* --------------------------------------------------------------- summary
NoRecords == <<"N", "o", " ", "r", "e", "c", "o", "r", "d", "s", " ", "m", "a", "t",
               "c", "h", "e", "d", " ", "t", "h", "e", " ", "q", "u", "e", "r", "y", ".">>

\* texts the model can answer a summary request with
SummaryResponses == { <<" ", "1", " ", "r", "e", "c", "o", "r", "d", ".", " ">>,
                      <<"N", "o", " ", "r", "o", "w", "s", ".">> }

generate_summary_always(user_query, df) ==
    [llm |-> TRUE, preview |-> IF df < 10 THEN df ELSE 10,
     ret |-> {strip(r) : r \in SummaryResponses}]

\* generate_summary up to the model's answer: whether the model is called,
\* how many rows head(10) forwards, and the values it can return
generate_summary(user_query, df) ==
    IF df = 0
    THEN [llm |-> FALSE, preview |-> 0, ret |-> {NoRecords}]
    ELSE [llm |-> TRUE, preview |-> IF df < 10 THEN df ELSE 10,
          ret |-> {strip(r) : r \in SummaryResponses}]

\* ---------------------------------------------------------- the script
\* lines typed at the prompt
Lines == { <<"e", "x", "i", "t">>,
           <<"E", "X", "I", "T">>,
           <<"E", "x", "i", "t">>,
           <<" ", "e", "x", "i", "t">>,
           <<"h", "o", "w", " ", "m", "a", "n", "y">> }

\* texts the model can answer a query request with
Responses == {
    <<"S", "E", "L", "E", "C", "T", " ", "a", " ", "F", "R", "O", "M", " ", "t">>,
    <<"S", "E", "L", "E", "C", "T", " ", "a", " ", "F", "R", "O", "M", " ", "t", ";">>,
    <<BT, BT, BT, "s", "q", "l", "\n", "S", "E", "L", "E", "C", "T", " ", "a", " ",
      "F", "R", "O", "M", " ", "t", ";", "\n", BT, BT, BT>>,
    <<BT, BT, BT, "S", "E", "L", "E", "C", "T", " ", "a", " ", "F", "R", "O", "M", " ",
      "t", BT, BT, BT>>,
    <<"S", "E", "L", "E", "C", "T", " ", "a", " ", "F", "R", "O", "M", " ", "t", " ",
      "L", "I", "M", "I", "T", " ", "1", "1">>,
    <<"S", "E", "L", "E", "C", "T", " ", "a", " ", "F", "R", "O", "M", " ", "t", " ",
      "l", "i", "m", "i", "t", "_", "c">>,
    <<"S", "E", "L", "E", "C", "T", " ", "a", " ", "F", "R", "O", "M", " ", "t", " ",
      "-", "-", "c">>,
    <<"S", "E", "L", "E", "C", "T", " ", "a", " ", "F", "R", "O", "M", " ", "t", ";",
      "S", "E", "L", "E", "C", "T", " ", "a", " ", "F", "R", "O", "M", " ", "t">>,
    <<"D", "r", "o", "p", " ", "T", "A", "B", "L", "E", " ", "t">>,
    <<"S", "E", "L", "E", "C", "T", " ", "a", " ", "F", "R", "O", "M", " ", "t", ";",
      "d", "e", "l", "e", "t", "e", " ", "F", "R", "O", "M", " ", "t">> }

\* an exception nothing catches ends the process
Raise(fn) ==
    /\ pc' = "crashed"
    /\ exc' = fn

\* con = duckdb.connect(DB_PATH) ... con.close(): the close is the last
\* statement of the function and runs only if nothing before it raised
Connection(raised) ==
    /\ open_cons' = IF raised THEN open_cons \cup {next_con} ELSE open_cons
    /\ next_con' = next_con + 1

\* lines 12-29: the configuration check at import
Config ==
    /\ pc = "config"
    /\ \/ Raise("config")
       \/ pc' = "load_file" /\ UNCHANGED exc
    /\ UNCHANGED <<turn, user_input, sql_query, result_df, summary, calls,
                   llm_calls, stdout, open_cons, next_con, fnVars>>

\* process_file: load_file, clean_data, extract_dataframe_metadata
LoadFile ==
    /\ pc = "load_file"
    /\ \/ Raise("load_file")
       \/ pc' = "generate_create_table_sql" /\ UNCHANGED exc
    /\ UNCHANGED <<turn, user_input, sql_query, result_df, summary, calls,
                   llm_calls, stdout, open_cons, next_con, fnVars>>

GenerateCreateTableSql ==
    /\ pc = "generate_create_table_sql"
    /\ \/ Raise("generate_create_table_sql") /\ UNCHANGED stdout
       \/ /\ pc' = "store_table"
          /\ stdout' = Append(stdout, "[CREATE TABLE LLM CALL]")
          /\ UNCHANGED exc
    /\ llm_calls' = Append(llm_calls, "CREATE TABLE")
    /\ UNCHANGED <<turn, user_input, sql_query, result_df, summary, calls,
                   open_cons, next_con, fnVars>>

StoreTable ==
    /\ pc = "store_table"
    /\ \/ Raise("store_table") /\ Connection(TRUE)
       \/ pc' = "verify_table" /\ Connection(FALSE) /\ UNCHANGED exc
    /\ UNCHANGED <<turn, user_input, sql_query, result_df, summary, calls,
                   llm_calls, stdout, fnVars>>

VerifyTable ==
    /\ pc = "verify_table"
    /\ \/ Raise("verify_table") /\ Connection(TRUE)
       \/ pc' = "extract_metadata_from_db" /\ Connection(FALSE) /\ UNCHANGED exc
    /\ UNCHANGED <<turn, user_input, sql_query, result_df, summary, calls,
                   llm_calls, stdout, fnVars>>

ExtractMetadataFromDb ==
    /\ pc = "extract_metadata_from_db"
    /\ \/ Raise("extract_metadata_from_db") /\ Connection(TRUE)
       \/ pc' = "input" /\ Connection(FALSE) /\ UNCHANGED exc
    /\ UNCHANGED <<turn, user_input, sql_query, result_df, summary, calls,
                   llm_calls, stdout, fnVars>>

\* line 296: user_input.lower() == "exit"
is_exit_exact(line) == line = <<"e", "x", "i", "t">>

is_exit(line) == lower(line) = <<"e", "x", "i", "t">>

\* lines 294-297.  calls, llm_calls and stdout record one turn and start
\* afresh; sql_query, result_df and summary are assigned before they are
\* next read, so the values a finished turn left in them are dropped.
ReadInput ==
    /\ pc = "input"
    /\ turn < MaxTurns
    /\ \E line \in Lines :
        /\ user_input' = line
        /\ pc' = IF is_exit(line) THEN "exited" ELSE "generate_select_sql"
    /\ turn' = turn + 1
    /\ sql_query' = <<>>
    /\ result_df' = 0
    /\ summary' = <<>>
    /\ calls' = <<>>
    /\ llm_calls' = <<>>
    /\ stdout' = <<>>
    /\ UNCHANGED <<open_cons, next_con, exc, fnVars>>

\* line 299 and generate_select_sql
GenerateSelectSql ==
    /\ pc = "generate_select_sql"
    /\ calls' = Append(calls, <<"generate_select_sql", user_input>>)
    /\ llm_calls' = Append(llm_calls, "ANALYSIS")
    /\ \/ Raise("generate_select_sql") /\ UNCHANGED <<sql_query, stdout>>
       \/ /\ \E response \in Responses :
               sql_query' = strip_sql_markdown(strip(response))
          /\ stdout' = Append(stdout, "[ANALYSIS LLM CALL]")
          /\ pc' = "is_safe_query"
          /\ UNCHANGED exc
    /\ UNCHANGED <<turn, user_input, result_df, summary, open_cons, next_con, fnVars>>

SafetyCheckNoContinue ==
    /\ pc = "is_safe_query"
    /\ calls' = Append(calls, <<"is_safe_query", sql_query>>)
    /\ stdout' = IF is_safe_query(sql_query) THEN stdout
                 ELSE Append(stdout, "Unsafe query blocked.")
    /\ pc' = "enforce_limit"
    /\ UNCHANGED <<turn, user_input, sql_query, result_df, summary, llm_calls,
                   open_cons, next_con, exc, fnVars>>

SafetyCheckInverted ==
    /\ pc = "is_safe_query"
    /\ calls' = Append(calls, <<"is_safe_query", sql_query>>)
    /\ IF is_safe_query(sql_query)
       THEN /\ stdout' = Append(stdout, "Unsafe query blocked.")
            /\ pc' = "input"
       ELSE /\ pc' = "enforce_limit"
            /\ UNCHANGED stdout
    /\ UNCHANGED <<turn, user_input, sql_query, result_df, summary, llm_calls,
                   open_cons, next_con, exc, fnVars>>

\* lines 301-303
SafetyCheck ==
    /\ pc = "is_safe_query"
    /\ calls' = Append(calls, <<"is_safe_query", sql_query>>)
    /\ IF ~ is_safe_query(sql_query)
       THEN /\ stdout' = Append(stdout, "Unsafe query blocked.")
            /\ pc' = "input"
       ELSE /\ pc' = "enforce_limit"
            /\ UNCHANGED stdout
    /\ UNCHANGED <<turn, user_input, sql_query, result_df, summary, llm_calls,
                   open_cons, next_con, exc, fnVars>>

\* lines 305-307
EnforceLimit ==
    /\ pc = "enforce_limit"
    /\ calls' = Append(calls, <<"enforce_limit", sql_query>>)
    /\ sql_query' = enforce_limit(sql_query, DefaultLimit)
    /\ stdout' = Append(stdout, "Generated SQL:")
    /\ pc' = "execute_query"
    /\ UNCHANGED <<turn, user_input, result_df, summary, llm_calls, open_cons,
                   next_con, exc, fnVars>>

\* lines 309-312 and execute_query
ExecuteQuery ==
    /\ pc = "execute_query"
    /\ calls' = Append(calls, <<"execute_query", sql_query>>)
    /\ \/ Raise("execute_query") /\ Connection(TRUE) /\ UNCHANGED <<result_df, stdout>>
       \/ /\ \E n \in StoreRows(sql_query) : result_df' = n
          /\ Connection(FALSE)
          /\ stdout' = Append(stdout, "--- Result (First 10 Rows) ---")
          /\ pc' = "generate_summary"
          /\ UNCHANGED exc
    /\ UNCHANGED <<turn, user_input, sql_query, summary, llm_calls, fnVars>>

\* lines 314-317 and generate_summary
GenerateSummary ==
    /\ pc = "generate_summary"
    /\ calls' = Append(calls, <<"generate_summary", user_input>>)
    /\ LET g == generate_summary(user_input, result_df)
       IN  /\ llm_calls' = IF g.llm THEN Append(llm_calls, "SUMMARY") ELSE llm_calls
           /\ \/ g.llm /\ Raise("generate_summary") /\ UNCHANGED <<summary, stdout>>
              \/ /\ \E text \in g.ret : summary' = text
                 /\ stdout' = (IF g.llm THEN Append(stdout, "[SUMMARY LLM CALL]") ELSE stdout)
                              \o <<"--- Summary ---">>
                 /\ pc' = "input"
                 /\ UNCHANGED exc
    /\ UNCHANGED <<turn, user_input, sql_query, result_df, open_cons, next_con, fnVars>>

\* ------------------------------------------------------- specifications
InitMain ==
    /\ pc = "config"
    /\ turn = 0
    /\ user_input = <<>>
    /\ sql_query = <<>>
    /\ result_df = 0
    /\ summary = <<>>
    /\ calls = <<>>
    /\ llm_calls = <<>>
    /\ stdout = <<>>
    /\ open_cons = {}
    /\ next_con = 1
    /\ exc = "none"

\* the script, from its start
Init ==
    /\ InitMain
    /\ fn_pc = "off"
    /\ fn_text = <<>>
    /\ fn_res = <<>>

Next ==
    \/ Config
    \/ LoadFile
    \/ GenerateCreateTableSql
    \/ StoreTable
    \/ VerifyTable
    \/ ExtractMetadataFromDb
    \/ ReadInput
    \/ GenerateSelectSql
    \/ SafetyCheck
    \/ EnforceLimit
    \/ ExecuteQuery
    \/ GenerateSummary

Spec == Init /\ [][Next]_vars

\* the three text functions, each applied to every text of Texts
InitText ==
    /\ InitMain
    /\ fn_pc = "call"
    /\ fn_text \in Texts
    /\ fn_res = <<>>

NextText ==
    \/ CallIsSafeQuery
    \/ CallEnforceLimit
    \/ CallStripSqlMarkdown

SpecText == InitText /\ [][NextText]_vars

\* ----------------------------------------------------------- properties
\* the text holds a forbidden keyword in some mix of letter cases
HasKeywordAnyCase(text) ==
    \E k \in forbidden : \E i \in 1..(Len(text) - Len(k) + 1) :
        lower(SubSeq(text, i, i + Len(k) - 1)) = lower(k)

\* the text holds the word LIMIT in some mix of letter cases
HasLimitAnyCase(text) ==
    \E i \in 1..(Len(text) - 4) : lower(SubSeq(text, i, i + 4)) = <<"l", "i", "m", "i", "t">>

BoundClause == <<" ", "L", "I", "M", "I", "T", " ", "1", "0">>

\* C1: is_safe_query rejects a text exactly when the text holds one of
\* INSERT, UPDATE, DELETE, DROP, ALTER, CREATE as a substring in any letter
\* case and at any position; it accepts every other text.
C1_SafetyGate ==
    fn_pc = "is_safe_query" => (fn_res = ~ HasKeywordAnyCase(fn_text))

\* a rejected text whose keyword is not in upper case and not at the start
C1_Witness ==
    /\ fn_pc = "is_safe_query"
    /\ fn_res = FALSE
    /\ ~ \E k \in forbidden : Contains(fn_text, k)
    /\ ~ \E k \in forbidden :
            Len(fn_text) >= Len(k) /\ upper(SubSeq(fn_text, 1, Len(k))) = k

\* C3 as claimed: for an accepted statement without LIMIT, enforce_limit adds
\* " LIMIT 10" and keeps the terminator as it was: none where there was
\* none, the one trailing ";" after the clause where there was one.
C3_TerminatorKept ==
    (/\ fn_pc = "enforce_limit"
     /\ Len(fn_text) >= 6
     /\ SubSeq(fn_text, 1, 6) = <<"S", "E", "L", "E", "C", "T">>
     /\ ~ HasKeywordAnyCase(fn_text)
     /\ ~ HasLimitAnyCase(fn_text))
    => fn_res = IF fn_text # <<>> /\ fn_text[Len(fn_text)] = ";"
                THEN SubSeq(fn_text, 1, Len(fn_text) - 1) \o BoundClause \o <<";">>
                ELSE fn_text \o BoundClause

\* C3 amended: for an accepted text without LIMIT, enforce_limit returns
\* the text without its trailing run of ";" (all of them), followed by
\* " LIMIT 10;": the result always ends in one ";" and nothing else changes.
C3_LimitAppended ==
    (/\ fn_pc = "enforce_limit"
     /\ ~ HasKeywordAnyCase(fn_text)
     /\ ~ HasLimitAnyCase(fn_text))
    => \E k \in 0..Len(fn_text) :
          /\ k = 0 \/ fn_text[k] # ";"
          /\ \A j \in (k + 1)..Len(fn_text) : fn_text[j] = ";"
          /\ fn_res = SubSeq(fn_text, 1, k) \o BoundClause \o <<";">>

\* an accepted text without LIMIT that ends in a terminator, bounded
C3_Witness ==
    /\ fn_pc = "enforce_limit"
    /\ ~ HasKeywordAnyCase(fn_text)
    /\ ~ HasLimitAnyCase(fn_text)
    /\ Len(fn_text) > 1
    /\ fn_text[Len(fn_text)] = ";"
    /\ fn_text[1] # ";"
    /\ Len(fn_res) = Len(fn_text) + Len(BoundClause)

\* The extraction C4 describes.  A word right after the opening marker is a
\* language tag when a line break ends it or when it is "sql" in any letter
\* case; any other word belongs to the interior.
ClaimedTagEnd(text, i) ==
    LET w == SkipWord(text, i + 3)
    IN  IF /\ w > i + 3
           /\ \/ (w <= Len(text) /\ text[w] = "\n")
              \/ upper(SubSeq(text, i + 3, w - 1)) = <<"S", "Q", "L">>
        THEN w ELSE i + 3

ClaimedClosings(text, i) ==
    {j \in ClaimedTagEnd(text, i)..Len(text) : FenceAt(text, j)}

ClaimedBlockAt(text, i) == FenceAt(text, i) /\ ClaimedClosings(text, i) # {}

ClaimedExtract(text) ==
    IF \E i \in 1..Len(text) : ClaimedBlockAt(text, i)
    THEN LET i == Min({k \in 1..Len(text) : ClaimedBlockAt(text, k)})
         IN  strip(SubSeq(text, ClaimedTagEnd(text, i), Min(ClaimedClosings(text, i)) - 1))
    ELSE strip(text)

\* C4: strip_sql_markdown returns the trimmed interior of the first fenced
\* block, the trimmed text when there is none, and takes no leading word of
\* an untagged interior for a language tag.
C4_FenceInterior ==
    fn_pc = "strip_sql_markdown" => fn_res = ClaimedExtract(fn_text)

CallNames == [i \in DOMAIN calls |-> calls[i][1]]

Called(fn) == \E i \in DOMAIN calls : calls[i][1] = fn

ArgOf(fn) == calls[CHOOSE i \in DOMAIN calls : calls[i][1] = fn][2]

BlockedNotice == "Unsafe query blocked."

Blocked == \E i \in DOMAIN stdout : stdout[i] = BlockedNotice

\* C2: when the gate rejects the statement of a turn, the notice is printed
\* and the loop is back at input(); a blocked turn has called neither
\* execute_query nor generate_summary nor the model for a summary.
C2_BlockedTurn ==
    /\ [](Blocked => /\ pc = "input"
                     /\ ~ Called("execute_query")
                     /\ ~ Called("generate_summary")
                     /\ ~ Called("enforce_limit")
                     /\ open_cons = {}
                     /\ \A i \in DOMAIN llm_calls : llm_calls[i] # "SUMMARY")
    /\ [][(pc = "is_safe_query" /\ HasKeywordAnyCase(sql_query))
          => (pc' = "input" /\ Blocked' /\ next_con' = next_con)]_vars

C2_Witness ==
    /\ Blocked
    /\ pc = "input"
    /\ turn < MaxTurns
    /\ HasKeywordAnyCase(ArgOf("is_safe_query"))

C5_Literal == <<"N", "o", " ", "r", "e", "c", "o", "r", "d", "s", " ", "m", "a", "t", "c",
                "h", "e", "d", " ", "t", "h", "e", " ", "q", "u", "e", "r", "y", ".">>

\* C5: given a result with no rows, generate_summary returns exactly
\* "No records matched the query." and does not call the model; it calls
\* the model only for a result with rows.
C5_EmptyShortCircuit ==
    Called("generate_summary") =>
        /\ result_df = 0 => /\ pc = "input"
                            /\ summary = C5_Literal
                            /\ \A i \in DOMAIN llm_calls : llm_calls[i] # "SUMMARY"
        /\ (\E i \in DOMAIN llm_calls : llm_calls[i] = "SUMMARY") => result_df > 0

C5_Witness ==
    /\ Called("generate_summary")
    /\ result_df = 0
    /\ summary = C5_Literal
    /\ llm_calls = <<"ANALYSIS">>

StartupSteps == {"config", "load_file", "generate_create_table_sql", "store_table",
                 "verify_table", "extract_metadata_from_db"}

\* C6: a failure inside a turn (the model call of synthesis or summary, the
\* store at execution) does not end the process; only a start-up failure
\* does.
C6_TurnFailureCaught ==
    pc = "crashed" => exc \in StartupSteps

\* C7: after any store operation has returned or failed, no connection it
\* opened is still open.
C7_ConnectionsClosed ==
    open_cons = {}

\* every ";" of the text is in its trailing run
SingleStatement(text) ==
    ~ \E i \in 1..Len(text) : text[i] = ";" /\ \E j \in (i + 1)..Len(text) : text[j] # ";"

\* what execute_query is handed passed the gate first and the enforcer next
GateThenEnforcer ==
    /\ Len(calls) >= 4
    /\ SubSeq(CallNames, 1, 4) =
         <<"generate_select_sql", "is_safe_query", "enforce_limit", "execute_query">>
    /\ calls[2][2] = calls[3][2]
    /\ ~ HasKeywordAnyCase(calls[2][2])
    /\ \/ calls[4][2] = calls[3][2]
       \/ /\ ~ HasLimitAnyCase(calls[3][2])
          /\ Len(calls[4][2]) > Len(BoundClause)
          /\ SubSeq(calls[4][2], Len(calls[4][2]) - Len(BoundClause), Len(calls[4][2]))
               = BoundClause \o <<";">>

\* C8 as claimed: the statement handed to execute_query passed the gate and
\* then the enforcer, holds no forbidden keyword, holds a bound clause and
\* is a single statement.
C8_ValidatedSingle ==
    Called("execute_query") =>
        /\ GateThenEnforcer
        /\ ~ HasKeywordAnyCase(ArgOf("execute_query"))
        /\ HasLimitAnyCase(ArgOf("execute_query"))
        /\ SingleStatement(ArgOf("execute_query"))

\* C8 amended: the statement handed to execute_query passed the gate and
\* then the enforcer, holds no forbidden keyword and holds the word LIMIT in
\* some letter case; it may be a batch of several statements.
C8_Validated ==
    Called("execute_query") =>
        /\ GateThenEnforcer
        /\ ~ HasKeywordAnyCase(ArgOf("execute_query"))
        /\ HasLimitAnyCase(ArgOf("execute_query"))

\* a batch of two statements handed to execute_query
C8_Witness ==
    /\ Called("execute_query")
    /\ ~ SingleStatement(ArgOf("execute_query"))
    /\ pc = "generate_summary"

\* C9 as claimed: the result of every statement that passed the gate and
\* the enforcer has at most 10 rows (stated here for the statements free of
\* line comments, where the store reads the statement's own clauses).
C9_AtMostTen ==
    (/\ pc = "generate_summary"
     /\ ~ Contains(sql_query, <<"-", "-">>))
    => result_df <= 10

\* C9 amended: when the statement that passed the gate held no LIMIT in
\* any letter case, so that the enforcer appended " LIMIT 10;", and no line
\* comment marker that could swallow the clause, the result has at most 10
\* rows.
C9_AtMostTenWhenAppended ==
    (/\ pc = "generate_summary"
     /\ ~ HasLimitAnyCase(ArgOf("enforce_limit"))
     /\ ~ Contains(ArgOf("enforce_limit"), <<"-", "-">>))
    => result_df <= 10

C9_Witness ==
    /\ pc = "generate_summary"
    /\ ~ HasLimitAnyCase(ArgOf("enforce_limit"))
    /\ ~ Contains(ArgOf("enforce_limit"), <<"-", "-">>)
    /\ result_df = 10

ExitAnyCase(line) ==
    /\ Len(line) = 4
    /\ line[1] \in {"e", "E"}
    /\ line[2] \in {"x", "X"}
    /\ line[3] \in {"i", "I"}
    /\ line[4] \in {"t", "T"}

FullTurn == <<"generate_select_sql", "is_safe_query", "enforce_limit",
              "execute_query", "generate_summary">>

\* C10: the line "exit" in any letter case ends the loop with no call made
\* for it; any other line starts one turn, whose calls follow the order
\* synthesis, safety, limit, execution, summary, and the next line is read
\* only when that turn is over (blocked by the gate, or through its summary).
C10_ExitAndTurns ==
    /\ (turn > 0 /\ ExitAnyCase(user_input)) => (pc = "exited" /\ calls = <<>> /\ llm_calls = <<>>)
    /\ pc = "exited" => ExitAnyCase(user_input)
    /\ Len(calls) <= Len(FullTurn) /\ CallNames = SubSeq(FullTurn, 1, Len(calls))
    /\ (pc = "input" /\ turn > 0) =>
          \/ CallNames = FullTurn
          \/ CallNames = SubSeq(FullTurn, 1, 2) /\ Blocked

C10_Witness ==
    /\ pc = "exited"
    /\ user_input = <<"E", "X", "I", "T">>
    /\ turn = 2

==========================================================================
